---- MODULE Spec2Model ----
(***************************************************************************)
(* Model of the recursive-descent parser of                                *)
(* DoP_Laboration3/parser.c (ParseExp and the routines it calls).          *)
(*                                                                         *)
(* The C call stack is the variable `stack`; every action is one basic     *)
(* block of one routine, from a routine's entry or the return of a call    *)
(* it made up to the next call, return or Error.  The scanner (scanadt)    *)
(* is the pair of its position in the line and its list of saved tokens.   *)
(***************************************************************************)
EXTENDS Integers, Sequences, FiniteSets, TLC

VARIABLES line, scanner, stack, ret, status, error

vars == <<line, scanner, stack, ret, status, error>>

(***************************************************************************)
(* Bounds of the model.                                                    *)
(***************************************************************************)
\* longest line of arbitrary tokens
MaxLen == 3
\* most operators in a line of the arithmetic family
MaxOps == 3
\* deepest C call stack that is followed
MaxDepth == 40

(***************************************************************************)
(* Tokens.  A token is its text; the empty token is the end of the line.   *)
(***************************************************************************)
NumberTokens == {"0", "1", "2", "3", "4", "5", "10"}

WordTokens ==
    {"x", "f", "n", "a", "b", "c", "d", "k",
     "if", "then", "else", "func", "define", "load"}

PunctTokens == {"+", "-", "*", "/", "(", ")", "{", "}", "=", "<", ":"}

Tokens == NumberTokens \cup WordTokens \cup PunctTokens

\* token[0] for the tokens of more than one character
Initial ==
    ("10" :> "1") @@ ("if" :> "i") @@ ("then" :> "t") @@ ("else" :> "e") @@
    ("func" :> "f") @@ ("define" :> "d") @@ ("load" :> "l")

\* token[0]; the terminating NUL of the empty token is written ""
FirstChar(token) ==
    IF token \in DOMAIN Initial THEN Initial[token] ELSE token

isdigit(ch) == ch \in {"0", "1", "2", "3", "4", "5", "6", "7", "8", "9"}

isalpha(ch) == ch \in {"a", "b", "c", "d", "e", "f", "i", "k", "l", "n", "t", "x"}

StringToInteger(token) ==
    CASE token = "0" -> 0
      [] token = "1" -> 1
      [] token = "2" -> 2
      [] token = "3" -> 3
      [] token = "4" -> 4
      [] token = "5" -> 5
      [] token = "10" -> 10

StringEqual(s, t) == s = t

Concat(s, t) == s \o t

(***************************************************************************)
(* The scanner: [pos, saved].  pos tokens of the line have been scanned;   *)
(* saved is the list of tokens given back with SaveToken, the last one     *)
(* saved first.                                                            *)
(***************************************************************************)
\* the token the next ReadToken returns
NextToken(sc) ==
    IF sc.saved # <<>> THEN Head(sc.saved)
    ELSE IF sc.pos < Len(line) THEN line[sc.pos + 1]
    ELSE ""

\* the scanner after a ReadToken
ReadToken(sc) ==
    IF sc.saved # <<>> THEN [sc EXCEPT !.saved = Tail(@)]
    ELSE IF sc.pos < Len(line) THEN [sc EXCEPT !.pos = @ + 1]
    ELSE sc

SaveToken(sc, token) == [sc EXCEPT !.saved = <<token>> \o @]

(***************************************************************************)
(* Expression trees (exp.h).                                               *)
(***************************************************************************)
NoExp == [type |-> "none"]

NewIntegerExp(n) == [type |-> "IntegerType", n |-> n]

NewIdentifierExp(id) == [type |-> "IdentifierType", id |-> id]

NewCompoundExp(op, lhs, rhs) ==
    [type |-> "CompoundType", op |-> op, lhs |-> lhs, rhs |-> rhs]

NewCallExp(func, arg) == [type |-> "CallType", func |-> func, arg |-> arg]

NewFuncExp(arg, body) == [type |-> "FuncType", arg |-> arg, body |-> body]

NewIfExp(pre, relOp, post, thenExp, elseExp) ==
    [type |-> "IfType", pre |-> pre, relOp |-> relOp, post |-> post,
     thenExp |-> thenExp, elseExp |-> elseExp]

\* the callee handed to NewCallExp
GetCallExp(exp) == exp

(***************************************************************************)
(* The call stack.                                                         *)
(***************************************************************************)
\* a routine's activation: where it is, and its locals (one expression and
\* one token, then the further expressions and tokens it holds)
Frame(fn, pc, exp, token, exps, toks) ==
    [fn |-> fn, pc |-> pc, exp |-> exp, token |-> token,
     exps |-> exps, toks |-> toks]

Entry(fn) == Frame(fn, "entry", NoExp, "", <<>>, <<>>)

Top == stack[Len(stack)]

At(fn, pc) ==
    /\ status = "running"
    /\ stack # <<>>
    /\ Top.fn = fn
    /\ Top.pc = pc

Below == SubSeq(stack, 1, Len(stack) - 1)

\* the running routine goes on as frame f and calls the routine of frame g
Call(f, g) ==
    /\ Len(stack) < MaxDepth
    /\ stack' = Below \o <<f, g>>
    /\ ret' = NoExp
    /\ UNCHANGED <<line, status, error>>

\* the running routine returns exp to its caller
Return(exp) ==
    /\ stack' = Below
    /\ ret' = exp
    /\ UNCHANGED <<line, status, error>>

\* Error(msg): the exception unwinds the stack to the try of main
Error(msg) ==
    /\ stack' = <<>>
    /\ ret' = NoExp
    /\ status' = "error"
    /\ error' = msg
    /\ UNCHANGED line

(***************************************************************************)
(* ParseExp, CheckCommandToken and ReadCommand.                            *)
(***************************************************************************)
IsCommandToken(token) == FirstChar(token) = ":"

\* the first token is no command: it is saved and the line is an expression
ParseExp_expression ==
    /\ At("ParseExp", "entry")
    /\ LET token == NextToken(scanner)
       IN /\ ~IsCommandToken(token)
          /\ scanner' = SaveToken(ReadToken(scanner), token)
          /\ Call([Top EXCEPT !.pc = "exp"], Entry("ReadE"))

\* the first token is ":": the command is it and the token after it
ParseExp_command ==
    /\ At("ParseExp", "entry")
    /\ LET token == NextToken(scanner)
           sc == ReadToken(scanner)
           command == Concat(token, NextToken(sc))
       IN /\ IsCommandToken(token)
          /\ scanner' = ReadToken(sc)
          /\ Call([Top EXCEPT !.pc = "exp"],
                  [Entry("ReadCommand") EXCEPT !.token = command])

ParseExp_return ==
    /\ At("ParseExp", "exp")
    /\ stack' = <<>>
    /\ status' = "done"
    /\ UNCHANGED <<line, scanner, ret, error>>

ReadCommand_define ==
    /\ At("ReadCommand", "entry")
    /\ StringEqual(Top.token, ":define")
    /\ LET id == NextToken(scanner)
           sc == ReadToken(scanner)
           op == NextToken(sc)
       IN /\ scanner' = ReadToken(sc)
          /\ Call([Top EXCEPT !.pc = "val", !.toks = <<id, op>>], Entry("ReadE"))

ReadCommand_compound ==
    /\ At("ReadCommand", "val")
    /\ Return(NewCompoundExp(FirstChar(Top.toks[2]),
                             NewIdentifierExp(Top.toks[1]), ret))
    /\ UNCHANGED scanner

ReadCommand_load ==
    /\ At("ReadCommand", "entry")
    /\ ~StringEqual(Top.token, ":define")
    /\ StringEqual(Top.token, ":load")
    /\ Return(NewIdentifierExp(":load"))
    /\ UNCHANGED scanner

ReadCommand_other ==
    /\ At("ReadCommand", "entry")
    /\ ~StringEqual(Top.token, ":define")
    /\ ~StringEqual(Top.token, ":load")
    /\ Return(NewIdentifierExp(Top.token))
    /\ UNCHANGED scanner

(***************************************************************************)
(* ReadE.                                                                  *)
(***************************************************************************)
IsAdditive(token) == StringEqual(token, "+") \/ StringEqual(token, "-")

\* a ReadE that reads its left operand with ReadE
ReadE_termLeftRecursive ==
    /\ At("ReadE", "entry")
    /\ Call([Top EXCEPT !.pc = "term"], Entry("ReadE"))
    /\ UNCHANGED scanner

ReadE_term ==
    /\ At("ReadE", "entry")
    /\ Call([Top EXCEPT !.pc = "term"], Entry("ReadT"))
    /\ UNCHANGED scanner

\* the token after the term is + or -: the rest is the right operand
ReadE_operator ==
    /\ At("ReadE", "term")
    /\ LET token == NextToken(scanner)
       IN /\ IsAdditive(token)
          /\ scanner' = ReadToken(scanner)
          /\ Call([Top EXCEPT !.pc = "rhs", !.exp = ret, !.token = token],
                  Entry("ReadE"))

\* any other token after the term: the term is the expression
ReadE_end ==
    /\ At("ReadE", "term")
    /\ ~IsAdditive(NextToken(scanner))
    /\ scanner' = ReadToken(scanner)
    /\ Return(ret)

ReadE_compound ==
    /\ At("ReadE", "rhs")
    /\ Return(NewCompoundExp(FirstChar(Top.token), Top.exp, ret))
    /\ UNCHANGED scanner

(***************************************************************************)
(* ReadT.                                                                  *)
(***************************************************************************)
\* a ReadT that knows * only
IsMultiplicativeStarOnly(token) == StringEqual(token, "*")

IsMultiplicative(token) == StringEqual(token, "*") \/ StringEqual(token, "/")

ReadT_call ==
    /\ At("ReadT", "entry")
    /\ Call([Top EXCEPT !.pc = "call"], Entry("ReadC"))
    /\ UNCHANGED scanner

ReadT_operator ==
    /\ At("ReadT", "call")
    /\ LET token == NextToken(scanner)
       IN /\ IsMultiplicative(token)
          /\ scanner' = ReadToken(scanner)
          /\ Call([Top EXCEPT !.pc = "rhs", !.exp = ret, !.token = token],
                  Entry("ReadT"))

\* a ReadT that saves the token once before it tests it and once more here
ReadT_endSavesTwice ==
    /\ At("ReadT", "call")
    /\ LET token == NextToken(scanner)
       IN /\ ~IsMultiplicative(token)
          /\ scanner' = SaveToken(SaveToken(ReadToken(scanner), token), token)
          /\ Return(ret)

ReadT_end ==
    /\ At("ReadT", "call")
    /\ LET token == NextToken(scanner)
       IN /\ ~IsMultiplicative(token)
          /\ scanner' = SaveToken(ReadToken(scanner), token)
          /\ Return(ret)

ReadT_compound ==
    /\ At("ReadT", "rhs")
    /\ Return(NewCompoundExp(FirstChar(Top.token), Top.exp, ret))
    /\ UNCHANGED scanner

(***************************************************************************)
(* ReadC.                                                                  *)
(***************************************************************************)
ReadC_factor ==
    /\ At("ReadC", "entry")
    /\ Call([Top EXCEPT !.pc = "factor"], Entry("ReadF"))
    /\ UNCHANGED scanner

ReadC_argument ==
    /\ At("ReadC", "factor")
    /\ StringEqual(NextToken(scanner), "(")
    /\ scanner' = ReadToken(scanner)
    /\ Call([Top EXCEPT !.pc = "arg", !.exp = ret], Entry("ReadE"))

ReadC_end ==
    /\ At("ReadC", "factor")
    /\ LET token == NextToken(scanner)
       IN /\ ~StringEqual(token, "(")
          /\ scanner' = SaveToken(ReadToken(scanner), token)
          /\ Return(ret)

ReadC_callexp ==
    /\ At("ReadC", "arg")
    /\ Return(NewCallExp(GetCallExp(Top.exp), ret))
    /\ UNCHANGED scanner

(***************************************************************************)
(* ReadF.                                                                  *)
(***************************************************************************)
ReadF_paren ==
    /\ At("ReadF", "entry")
    /\ StringEqual(NextToken(scanner), "(")
    /\ scanner' = ReadToken(scanner)
    /\ Call([Top EXCEPT !.pc = "paren"], Entry("ReadE"))

\* after the expression of ( E ): one more token is read
ReadF_closing ==
    /\ At("ReadF", "paren")
    /\ scanner' = ReadToken(scanner)
    /\ Return(ret)

ReadF_integer ==
    /\ At("ReadF", "entry")
    /\ LET token == NextToken(scanner)
       IN /\ ~StringEqual(token, "(")
          /\ isdigit(FirstChar(token))
          /\ scanner' = ReadToken(scanner)
          /\ Return(NewIntegerExp(StringToInteger(token)))

ReadF_func ==
    /\ At("ReadF", "entry")
    /\ isalpha(FirstChar(NextToken(scanner)))
    /\ StringEqual(NextToken(scanner), "func")
    /\ scanner' = ReadToken(scanner)
    /\ Call([Top EXCEPT !.pc = "sub"], Entry("ReadNewFunc"))

ReadF_if ==
    /\ At("ReadF", "entry")
    /\ isalpha(FirstChar(NextToken(scanner)))
    /\ StringEqual(NextToken(scanner), "if")
    /\ scanner' = ReadToken(scanner)
    /\ Call([Top EXCEPT !.pc = "sub"], Entry("ReadControlStructure"))

ReadF_identifier ==
    /\ At("ReadF", "entry")
    /\ LET token == NextToken(scanner)
       IN /\ ~StringEqual(token, "(")
          /\ ~isdigit(FirstChar(token))
          /\ isalpha(FirstChar(token))
          /\ ~StringEqual(token, "func")
          /\ ~StringEqual(token, "if")
          /\ scanner' = ReadToken(scanner)
          /\ Return(NewIdentifierExp(token))

ReadF_illegal ==
    /\ At("ReadF", "entry")
    /\ LET token == NextToken(scanner)
       IN /\ ~StringEqual(token, "(")
          /\ ~isdigit(FirstChar(token))
          /\ ~isalpha(FirstChar(token))
          /\ scanner' = ReadToken(scanner)
          /\ Error("Illegal term in expression")

\* the function literal or the conditional is the term
ReadF_return ==
    /\ At("ReadF", "sub")
    /\ Return(ret)
    /\ UNCHANGED scanner

(***************************************************************************)
(* ReadNewFunc and ReadArguments.                                          *)
(***************************************************************************)
ReadArguments(sc) == NextToken(sc)

\* reads "(", the argument, ")" and "{", then the body
ReadNewFunc_head ==
    /\ At("ReadNewFunc", "entry")
    /\ LET sc1 == ReadToken(scanner)
           arg == ReadArguments(sc1)
           sc2 == ReadToken(sc1)
           sc3 == ReadToken(sc2)
       IN /\ scanner' = ReadToken(sc3)
          /\ Call([Top EXCEPT !.pc = "body", !.token = arg], Entry("ReadE"))

\* after the body: two more tokens are read
ReadNewFunc_tail ==
    /\ At("ReadNewFunc", "body")
    /\ scanner' = ReadToken(ReadToken(scanner))
    /\ Return(NewFuncExp(Top.token, ret))

(***************************************************************************)
(* ReadControlStructure.                                                   *)
(***************************************************************************)
\* reads one token, and one more if that one is "if", then the left operand
ReadControlStructure_head ==
    /\ At("ReadControlStructure", "entry")
    /\ LET token == NextToken(scanner)
           sc == ReadToken(scanner)
       IN /\ scanner' = IF StringEqual(token, "if") THEN ReadToken(sc) ELSE sc
          /\ Call([Top EXCEPT !.pc = "pre"], Entry("ReadE"))

ReadControlStructure_relOp ==
    /\ At("ReadControlStructure", "pre")
    /\ LET relOp == NextToken(scanner)
       IN /\ scanner' = ReadToken(scanner)
          /\ Call([Top EXCEPT !.pc = "post", !.exps = <<ret>>, !.token = relOp],
                  Entry("ReadE"))

ReadControlStructure_then ==
    /\ At("ReadControlStructure", "post")
    /\ StringEqual(NextToken(scanner), "then")
    /\ scanner' = ReadToken(scanner)
    /\ Call([Top EXCEPT !.pc = "then", !.exps = @ \o <<ret>>], Entry("ReadE"))

ReadControlStructure_nothen ==
    /\ At("ReadControlStructure", "post")
    /\ ~StringEqual(NextToken(scanner), "then")
    /\ scanner' = ReadToken(scanner)
    /\ Error("Syntactical error in 'If' statement!")

ReadControlStructure_else ==
    /\ At("ReadControlStructure", "then")
    /\ StringEqual(NextToken(scanner), "else")
    /\ scanner' = ReadToken(scanner)
    /\ Call([Top EXCEPT !.pc = "else", !.exps = @ \o <<ret>>], Entry("ReadE"))

ReadControlStructure_noelse ==
    /\ At("ReadControlStructure", "then")
    /\ ~StringEqual(NextToken(scanner), "else")
    /\ scanner' = ReadToken(scanner)
    /\ Error("Syntactical error in 'If' statement!")

ReadControlStructure_ifexp ==
    /\ At("ReadControlStructure", "else")
    /\ Return(NewIfExp(Top.exps[1], Top.token, Top.exps[2], Top.exps[3], ret))
    /\ UNCHANGED scanner

(***************************************************************************)
(* The lines that are parsed: main hands ParseExp one line at a time.      *)
(***************************************************************************)
\* one token of every kind the parser tells apart
CoreTokens ==
    {"1", "x", "+", "*", "(", ")", "if", "then", "else", "func", ":", "define"}

\* every line of at most MaxLen core tokens
ArbitraryLines == UNION {[1..k -> CoreTokens] : k \in 0..MaxLen}

Operands == {"1", "x"}

Operators == {"+", "-", "*", "/"}

RECURSIVE Chains(_)
\* operand (operator operand)^k
Chains(k) ==
    IF k = 0 THEN {<<a>> : a \in Operands}
    ELSE {<<a, op>> \o r : a \in Operands, op \in Operators, r \in Chains(k - 1)}

\* the arithmetic lines without parentheses, of at most MaxOps operators
ArithmeticLines == UNION {Chains(k) : k \in 0..MaxOps}

\* lines of the forms the parser knows, the examples of its description
\* among them
FormLines ==
    {<<"2", "*", "3", "+", "4">>,
     <<"2", "+", "3", "*", "4">>,
     <<"1", "+", "2", "+", "3">>,
     <<"(", "1", "+", "2", ")", "*", "3">>,
     <<"(", "1", ")", "+", "2">>,
     <<"(", "1", "+", "2", ")">>,
     <<"if", "x", "<", "0", "then", "0", "else", "x">>,
     <<"if", "a", "<", "b", "then", "c", "else">>,
     <<"if", "a", "<", "b", "c", "else", "d">>,
     <<"if", "if", "x">>,
     <<"if", "k", "x", ")", "<", "0", ")", "then", "0", ")", "else", "x">>,
     <<"if", "k", "x", ")", "<", "0", ")", "then", "0", ")", "x">>,
     <<"if", "k", "x", ")", "<", "0", ")", "0">>,
     <<"f", "(", "1", ")">>,
     <<"f", "(", "1", ")", "+", "2">>,
     <<"f", "(", "1", "+", "2", ")", "*", "3">>,
     <<"f", "(", "f", "(", "1", ")", ")">>,
     <<"f", "+", "1">>,
     <<"(", "f", ")", "(", "1", ")">>,
     <<":", "define", "x", "=", "5">>,
     <<":", "define", "x", "=", "10">>,
     <<":", "define", "x", "=", "2", "*", "x", "+", "1">>,
     <<":", "define", "x", "=", "(", "1", ")", "+", "2">>,
     <<":", "load", "f">>,
     <<":", "k">>,
     <<"func", "(", "n", ")", "{", "n", "*", "2", "}">>,
     <<"func", "(", "n", ")", "{", "n", "*", "2", "}", "(", "3", ")">>,
     <<"func", "(", "n", ")", "{", "n", "}", "+", "1">>,
     <<")">>}

Lines == ArbitraryLines \cup ArithmeticLines \cup FormLines

(***************************************************************************)
(* The specification: ParseExp on one line, from its call in main to its   *)
(* return or the Error that ends it.                                       *)
(***************************************************************************)
Init ==
    /\ line \in Lines
    /\ scanner = [pos |-> 0, saved |-> <<>>]
    /\ stack = <<Entry("ParseExp")>>
    /\ ret = NoExp
    /\ status = "running"
    /\ error = ""

Next ==
    \/ ParseExp_expression
    \/ ParseExp_command
    \/ ParseExp_return
    \/ ReadCommand_define
    \/ ReadCommand_compound
    \/ ReadCommand_load
    \/ ReadCommand_other
    \/ ReadE_term
    \/ ReadE_operator
    \/ ReadE_end
    \/ ReadE_compound
    \/ ReadT_call
    \/ ReadT_operator
    \/ ReadT_end
    \/ ReadT_compound
    \/ ReadC_factor
    \/ ReadC_argument
    \/ ReadC_end
    \/ ReadC_callexp
    \/ ReadF_paren
    \/ ReadF_closing
    \/ ReadF_integer
    \/ ReadF_func
    \/ ReadF_if
    \/ ReadF_identifier
    \/ ReadF_illegal
    \/ ReadF_return
    \/ ReadNewFunc_head
    \/ ReadNewFunc_tail
    \/ ReadControlStructure_head
    \/ ReadControlStructure_relOp
    \/ ReadControlStructure_then
    \/ ReadControlStructure_nothen
    \/ ReadControlStructure_else
    \/ ReadControlStructure_noelse
    \/ ReadControlStructure_ifexp

Spec == Init /\ [][Next]_vars

\* the program is one thread that goes on while it has a step to take
FairSpec == Init /\ [][Next]_vars /\ WF_vars(Next)

Terminated == status \in {"done", "error"}

(***************************************************************************)
(* The grammar the parser is to follow, as a parser of its own:            *)
(*     Expr -> Term (('+'|'-') Expr)?      Term -> Call (('*'|'/') Term)?  *)
(*     Call -> Atom ('(' Expr ')')?                                        *)
(*     Atom -> integer | identifier | '(' Expr ')' | FuncLit | Cond        *)
(*     FuncLit -> 'func' '(' param ')' '{' Expr '}'                        *)
(*     Cond -> 'if' Expr relop Expr 'then' Expr 'else' Expr                *)
(* G...(ts, i) reads the phrase that starts at token i of ts and gives     *)
(* its tree and the index of the token after it.                           *)
(***************************************************************************)
Keywords == {"if", "then", "else", "func"}

Identifiers == WordTokens \ Keywords

RelOps == {"<", "="}

Tok(ts, i) == IF i \in 1..Len(ts) THEN ts[i] ELSE ""

GFail == [ok |-> FALSE, exp |-> NoExp, next |-> 0]

GOk(exp, next) == [ok |-> TRUE, exp |-> exp, next |-> next]

RECURSIVE GExpr(_, _), GTerm(_, _), GCall(_, _), GAtom(_, _)

GExpr(ts, i) ==
    LET t == GTerm(ts, i)
    IN IF ~t.ok THEN GFail
       ELSE IF Tok(ts, t.next) \in {"+", "-"}
       THEN LET e == GExpr(ts, t.next + 1)
            IN IF e.ok
               THEN GOk(NewCompoundExp(Tok(ts, t.next), t.exp, e.exp), e.next)
               ELSE GFail
       ELSE t

GTerm(ts, i) ==
    LET c == GCall(ts, i)
    IN IF ~c.ok THEN GFail
       ELSE IF Tok(ts, c.next) \in {"*", "/"}
       THEN LET t == GTerm(ts, c.next + 1)
            IN IF t.ok
               THEN GOk(NewCompoundExp(Tok(ts, c.next), c.exp, t.exp), t.next)
               ELSE GFail
       ELSE c

GCall(ts, i) ==
    LET a == GAtom(ts, i)
    IN IF ~a.ok THEN GFail
       ELSE IF Tok(ts, a.next) = "("
       THEN LET e == GExpr(ts, a.next + 1)
            IN IF e.ok /\ Tok(ts, e.next) = ")"
               THEN GOk(NewCallExp(a.exp, e.exp), e.next + 1)
               ELSE GFail
       ELSE a

GAtom(ts, i) ==
    LET t == Tok(ts, i)
    IN CASE t \in NumberTokens -> GOk(NewIntegerExp(StringToInteger(t)), i + 1)
         [] t \in Identifiers -> GOk(NewIdentifierExp(t), i + 1)
         [] t = "(" ->
              LET e == GExpr(ts, i + 1)
              IN IF e.ok /\ Tok(ts, e.next) = ")"
                 THEN GOk(e.exp, e.next + 1)
                 ELSE GFail
         [] t = "func" ->
              IF /\ Tok(ts, i + 1) = "("
                 /\ Tok(ts, i + 2) \in Identifiers
                 /\ Tok(ts, i + 3) = ")"
                 /\ Tok(ts, i + 4) = "{"
              THEN LET b == GExpr(ts, i + 5)
                   IN IF b.ok /\ Tok(ts, b.next) = "}"
                      THEN GOk(NewFuncExp(Tok(ts, i + 2), b.exp), b.next + 1)
                      ELSE GFail
              ELSE GFail
         [] t = "if" ->
              LET l == GExpr(ts, i + 1)
                  r == GExpr(ts, l.next + 1)
                  a == GExpr(ts, r.next + 1)
                  b == GExpr(ts, a.next + 1)
              IN IF /\ l.ok
                    /\ Tok(ts, l.next) \in RelOps
                    /\ r.ok
                    /\ Tok(ts, r.next) = "then"
                    /\ a.ok
                    /\ Tok(ts, a.next) = "else"
                    /\ b.ok
                 THEN GOk(NewIfExp(l.exp, Tok(ts, l.next), r.exp, a.exp, b.exp),
                          b.next)
                 ELSE GFail
         [] OTHER -> GFail

\* ts is one whole expression of the grammar
WellFormed(ts) == GExpr(ts, 1).ok /\ GExpr(ts, 1).next = Len(ts) + 1

\* the tree the grammar gives the expression ts
Tree(ts) == GExpr(ts, 1).exp

\* ParseExp returned the tree the grammar gives the line
ParsedAsGrammar == status = "done" /\ ret = Tree(line)

(***************************************************************************)
(* Properties.                                                             *)
(***************************************************************************)
\* an arithmetic expression without parentheses: integers, identifiers and
\* the operators + - * / only
ParenFreeArithmetic(ts) ==
    /\ \A i \in 1..Len(ts) : ts[i] \in NumberTokens \cup Identifiers \cup Operators
    /\ WellFormed(ts)

GroupThenOperator(ts) ==
    /\ WellFormed(ts)
    /\ \E i \in 1..Len(ts) :
          /\ ts[i] = "("
          /\ Tok(ts, i - 1) \notin NumberTokens \cup Identifiers \cup {")", "}"}
          /\ GAtom(ts, i).ok
          /\ Tok(ts, GAtom(ts, i).next) \in Operators

\* C2: in a well-formed line in which a group ( E ) is followed by an
\* operator and a further operand, the group is one operand of that operator
\* and the rest of the line is parsed: ParseExp returns the tree of the
\* grammar.
C2_ParenthesesOverride ==
    (Terminated /\ GroupThenOperator(line)) => ParsedAsGrammar

\* the line is one well-formed conditional if L relop R then A else B
ConditionalLine(ts) == WellFormed(ts) /\ Tok(ts, 1) = "if" /\ Tree(ts).type = "IfType"

\* C3: for a well-formed conditional line ParseExp raises no error and
\* returns the Conditional of the trees of L, R, A and B and the token relop.
C3_ConditionalTree ==
    (Terminated /\ ConditionalLine(line)) => ParsedAsGrammar

\* C4: "if a < b then c else" and "if a < b c else d" each end in the error
\* "Syntactical error in 'If' statement!".
C4_MalformedConditional ==
    (/\ Terminated
     /\ line \in {<<"if", "a", "<", "b", "then", "c", "else">>,
                  <<"if", "a", "<", "b", "c", "else", "d">>})
        => (status = "error" /\ error = "Syntactical error in 'If' statement!")

\* the line is well-formed and starts with an atom that is followed by "("
\* (a call) or by an operator (no call)
AtomThenToken(ts) ==
    /\ WellFormed(ts)
    /\ GAtom(ts, 1).ok
    /\ Tok(ts, GAtom(ts, 1).next) \in {"("} \cup Operators

\* C5: an atom followed by "(" gives a Call of the atom on the expression up
\* to the matching ")", and parsing goes on after that ")"; an atom followed
\* by another token gives no Call and that token is read next: ParseExp
\* returns the tree of the grammar.
C5_CallDisambiguation ==
    (Terminated /\ AtomThenToken(line)) => ParsedAsGrammar

\* the number of tokens of the line that were read and not saved again
Consumed ==
    scanner.pos - Cardinality({i \in DOMAIN scanner.saved : scanner.saved[i] # ""})

\* the line is :define <identifier> <operator> <expr>, <expr> well-formed
DefineLine(ts) ==
    /\ Len(ts) > 4
    /\ ts[1] = ":"
    /\ ts[2] = "define"
    /\ ts[3] \in Identifiers
    /\ ts[4] \in Operators \cup RelOps
    /\ WellFormed(SubSeq(ts, 5, Len(ts)))

\* C6: for a line :define <identifier> <operator> <expr> ParseExp returns
\* the BinaryOp of the operator, the identifier and the tree of <expr>; a
\* line whose first token is not ":" is parsed as an expression from its
\* first token on.
C6_DefineTree ==
    /\ (Terminated /\ DefineLine(line)) =>
          /\ status = "done"
          /\ ret = NewCompoundExp(line[4], NewIdentifierExp(line[3]),
                                  Tree(SubSeq(line, 5, Len(line))))
    /\ (At("ReadE", "entry") /\ Len(stack) = 2 /\ Tok(line, 1) # ":") =>
          (NextToken(scanner) = Tok(line, 1) /\ Consumed = 0)

\* C7: the scanner never holds more than one saved token.
C7_PushbackInvariant == Len(scanner.saved) <= 1

\* C7 witness: ReadT has saved the token that ends its term, after ReadC
\* saved it and ReadT read it
C7_Witness ==
    /\ At("ReadE", "term")
    /\ scanner.pos > 1
    /\ scanner.saved = <<"+">>

\* the token ReadToken would return
Peek == NextToken(scanner)

\* C8: ReadE leaves the token that ends its expression, the first one after
\* an operand that is not + or -, in the scanner: it is the next token read.
C8_ReadELeavesTerminator == [][ReadE_end => Peek' = Peek]_vars

\* the line is well-formed and starts with a function literal
FuncLiteralLine(ts) == WellFormed(ts) /\ Tok(ts, 1) = "func"

\* C9: the function literal ends with its one closing "}", and the token
\* after it is read by the caller: ParseExp returns the tree of the
\* grammar for a line that starts with a function literal.
C9_FuncLiteralTree ==
    (Terminated /\ FuncLiteralLine(line)) => ParsedAsGrammar

\* no more than five routines are entered for each token read, after the six
\* that start a line
RecursionConsumes == Len(stack) <= 6 + 5 * Consumed

\* at the end of the line ReadF raises "Illegal term in expression"
ExhaustedIsIllegal ==
    (At("ReadF", "entry") /\ NextToken(scanner) = "")
        => (status' = "error" /\ error' = "Illegal term in expression")

\* C10: ParseExp terminates on every line with a tree or an error: recursion
\* goes on only as tokens are read, and at the end of the line a term is an
\* error.
C10_ParseTerminates ==
    /\ []RecursionConsumes
    /\ [][ExhaustedIsIllegal]_vars
    /\ <>Terminated

\* C10 witness: "1 +" ended in the error raised at the end of the line
C10_Witness ==
    /\ line = <<"1", "+">>
    /\ status = "error"
    /\ error = "Illegal term in expression"
    /\ scanner.pos = Len(line)

====
